---------------------------- MODULE Spec2Model ----------------------------
(***************************************************************************)
(* A model of the vscode-insta extension of mitsuhiko/insta:               *)
(*   - the snapshot locator (extension.ts, SnapshotPathProvider),          *)
(*   - the accept / reject driver for file-based snapshots                 *)
(*     (extension.ts, performSnapshotAction),                              *)
(*   - the pending-snapshot discovery and its cache of inline snapshots    *)
(*     (insta.ts, Snapshot.ts, PendingSnapshotsProvider).                  *)
(*                                                                         *)
(* A source line is a sequence of tokens; the regular expressions of       *)
(* extension.ts are operators over such sequences.  Line numbers are       *)
(* 0-based as in the editor API: lineAt(doc, n) is doc[n + 1].             *)
(***************************************************************************)
EXTENDS Integers, Sequences, FiniteSets, TLC

VARIABLES
    document,   \* TextDocument: the lines of the open Rust source file
    fileName,   \* TextDocument.fileName, split into directory, stem, extension
    snapshotFiles, \* the .snap files of the workspace that findFiles searches
    located,    \* the last findSnapshotAtLocation request and what it returned
    relocated,  \* the same request made once more and what it returned
    fs,         \* workspace.fs: the content of each snapshot file, or Missing
    calls,      \* the invocations of performSnapshotAction and where each stands
    activeTextEditor,   \* window.activeTextEditor?.document.uri
    visibleTextEditors, \* window.visibleTextEditors, their document uris
    cachedInlineSnapshots,  \* PendingSnapshotsProvider.cachedInlineSnapshots
    passes,     \* the calls of getChildren and where each stands
    delegations,    \* the calls of processInlineSnapshot and processAllSnapshots
    snapshotText,   \* the lines of the snapshot file provideDefinition reads
    definition,     \* what provideDefinition returned
    inlineLiteral,  \* the characters of the literal after @ at a call site
    patched,        \* the last patch of that literal and how it ended
    disk,           \* the source file on disk and the temporary file next to it
    writer,         \* the write of a patched text and where it stands
    observed,       \* what a concurrent reader of the source file last read
    now,            \* the time in ms since the provider was constructed
    pendingRefresh, \* PendingSnapshotsProvider.pendingRefresh: a timer or none
    timers,         \* the timeouts of the host that are set and not cleared
    callTimes,      \* when refreshDebounced was called, in order
    refreshTimes,   \* when refresh was fired by a timer, in order
    snapDocument,   \* the lines of the snapshot file links are provided for
    documentLinks   \* what provideDocumentLinks returned

locVars == <<document, fileName, snapshotFiles, located, relocated>>
revVars == <<fs, calls, activeTextEditor, visibleTextEditors>>
regVars == <<cachedInlineSnapshots, passes>>
delVars == <<delegations>>
defVars == <<snapshotText, definition>>
patchVars == <<inlineLiteral, patched>>
writeVars == <<disk, writer, observed>>
debVars == <<now, pendingRefresh, timers, callTimes, refreshTimes>>
linkVars == <<snapDocument, documentLinks>>
vars ==
    <<locVars, revVars, regVars, delVars, defVars, patchVars, writeVars,
      debVars, linkVars>>

-----------------------------------------------------------------------------
(* Bounds                                                                  *)

\* every document of at most MaxLines lines is explored
MaxLines == 5
\* invocations of performSnapshotAction in one behaviour
MaxCalls == 2
\* discovery passes (calls of getChildren) in one behaviour
MaxPasses == 2
\* calls of processInlineSnapshot and processAllSnapshots in one behaviour
MaxDelegations == 2
\* every snapshot file of at most MaxTextLines lines is explored
MaxTextLines == 5
\* every new value of at most MaxValueLen characters is patched in
MaxValueLen == 3
\* the literals patched have fences of at most MaxFence hashes
MaxFence == 2
\* patches of one literal in one behaviour
MaxPatches == 2
\* calls of refreshDebounced in one behaviour
MaxRefreshCalls == 3
\* every snapshot body of at most MaxBodyLines lines follows each header
MaxBodyLines == 3
\* refreshDebounced is called during the first MaxSteps steps of time
MaxSteps == 6

-----------------------------------------------------------------------------
(* Tokens and the lines they make                                          *)

Tok(t) == [t |-> t, v |-> <<>>]
TokV(t, v) == [t |-> t, v |-> v]

\* `#[test]`
LineTest == << Tok("test") >>
\* `fn test_a() {`  and  `fn b() {`
LineFnTestA == << TokV("fn", <<"test_", "a">>), Tok("open") >>
LineFnB == << TokV("fn", <<"b">>), Tok("open") >>
\* `assert_snapshot!(value);`
LineUnnamed == << Tok("call"), Tok("expr"), Tok("close") >>
\* `assert_snapshot!(value, @"literal");`
LineUnnamedInline == << Tok("call"), Tok("expr"), Tok("comma"), Tok("atlit"), Tok("close") >>
\* `assert_snapshot!("n1", value);`  and  `assert_snapshot!("n2", value);`
LineNamed(n) == << Tok("call"), TokV("str", <<n>>), Tok("comma"), Tok("expr"), Tok("close") >>
\* a line with none of the constructs the locator looks for
LineOther == << Tok("expr") >>

LineKinds ==
    { LineOther, LineTest, LineFnTestA, LineFnB,
      LineUnnamed, LineUnnamedInline, LineNamed("n1"), LineNamed("n2") }

ShortDocuments == UNION { [1..n -> LineKinds] : n \in 1..MaxLines }

\* a test function with three unnamed assertions, on lines 3, 5 and 7
ThreeUnnamed ==
    << LineOther, LineTest, LineFnTestA, LineUnnamed, LineOther, LineUnnamed,
       LineOther, LineUnnamed >>
\* the same with inline assertions
ThreeInline ==
    << LineOther, LineTest, LineFnTestA, LineUnnamedInline, LineOther,
       LineUnnamedInline, LineOther, LineUnnamedInline >>
\* a named assertion between two unnamed ones
NamedBetween ==
    << LineOther, LineTest, LineFnTestA, LineUnnamed, LineNamed("n1"),
       LineOther, LineUnnamed >>

ExampleDocuments == { ThreeUnnamed, ThreeInline, NamedBetween }

Documents == ShortDocuments \cup ExampleDocuments

lineAt(doc, n) == doc[n + 1]
lineCount(doc) == Len(doc)

-----------------------------------------------------------------------------
(* The regular expressions of extension.ts                                 *)

NoGroup == << "<no match>" >>

HasToken(line, t) == \E i \in 1..Len(line) : line[i].t = t

\* /(?:\binsta::)?(?:assert(?:_\w+)?_snapshot!)\(/
UNNAMED_SNAPSHOT_ASSERTION(line) == HasToken(line, "call")

\* the places where  call \s* "name" \s* ,  starts
NamedAt(line) ==
    { i \in 1..(Len(line) - 2) :
        /\ line[i].t = "call"
        /\ line[i + 1].t = "str"
        /\ line[i + 2].t = "comma" }

Least(S) == CHOOSE x \in S : \A y \in S : x <= y
Greatest(S) == CHOOSE x \in S : \A y \in S : x >= y

\* /(?:\binsta::)?(?:assert(?:_\w+)?_snapshot!)\(\s*['"]([^'"]+)['"]\s*,/
\* group 1 of the leftmost match, or NoGroup
NAMED_SNAPSHOT_ASSERTION(line) ==
    IF NamedAt(line) = {} THEN NoGroup
    ELSE line[Least(NamedAt(line)) + 1].v

\* /...\(\s*['"]([^'"]+)['"]\s*,\s*@(r#*)?["']/
STRING_INLINE_SNAPSHOT_ASSERTION(line) ==
    \E i \in NamedAt(line) : i + 3 <= Len(line) /\ line[i + 3].t = "atlit"

\* /@(r#*)?["']/
INLINE_MARKER(line) == HasToken(line, "atlit")

\* /\bfn\s+([\w]+)\s*\(/ : group 1 of the leftmost match, or NoGroup
FUNCTION(line) ==
    LET at == { i \in 1..Len(line) : line[i].t = "fn" }
    IN  IF at = {} THEN NoGroup ELSE line[Least(at)].v

\* /#\[test\]/
TEST_DECL(line) == HasToken(line, "test")

\* /^(.*)[/\\](.*?)\.rs$/ on a file name [dir, stem, ext]: a separator is
\* there when dir is not empty; groups 1 and 2, or NoGroup
FILENAME_PARTITION(name) ==
    IF name.dir # <<>> /\ name.ext = "rs"
    THEN << name.dir, name.stem >>
    ELSE NoGroup

\* /^test_(.*?)$/ : group 1, or NoGroup
SNAPSHOT_FUNCTION_STRIP(fn) ==
    IF fn # <<>> /\ Head(fn) = "test_" THEN Tail(fn) ELSE NoGroup

-----------------------------------------------------------------------------
(* Number formatting of the template string `-${snapshotNumber}`           *)

Digit == << "0", "1", "2", "3", "4", "5", "6", "7", "8", "9" >>

RECURSIVE ToDecimal(_)
ToDecimal(n) ==
    IF n < 10 THEN << Digit[n + 1] >>
    ELSE Append(ToDecimal(n \div 10), Digit[(n % 10) + 1])

-----------------------------------------------------------------------------
(* SnapshotMatch values                                                    *)

NullMatch ==
    [ status |-> "null", snapshotName |-> <<>>, line |-> -1, path |-> <<>>,
      localModuleName |-> "", snapshotType |-> "none" ]

\* the TypeError of `functionName.match(SNAPSHOT_FUNCTION_STRIP)![1]`
ThrownMatch == [ NullMatch EXCEPT !.status = "threw" ]

NamedMatch(name, path, module) ==
    [ status |-> "match", snapshotName |-> name, line |-> -1, path |-> path,
      localModuleName |-> module, snapshotType |-> "named" ]

InlineMatch(line, path) ==
    [ status |-> "match", snapshotName |-> <<>>, line |-> line, path |-> path,
      localModuleName |-> "", snapshotType |-> "inline" ]

\* document.fileName as one path
FullPath(name) == name.dir \o << name.stem, name.ext >>

-----------------------------------------------------------------------------
(* resolveNamedSnapshot                                                    *)

resolveNamedSnapshot(doc, name, pos) ==
    LET line == (IF pos >= 1 THEN lineAt(doc, pos - 1) ELSE <<>>) \o lineAt(doc, pos)
        snapshotMatch == NAMED_SNAPSHOT_ASSERTION(line)
        fileNameMatch == FILENAME_PARTITION(name)
    IN  IF snapshotMatch = NoGroup THEN NullMatch
        ELSE IF fileNameMatch = NoGroup THEN NullMatch
        ELSE NamedMatch(snapshotMatch, fileNameMatch[1], fileNameMatch[2])

-----------------------------------------------------------------------------
(* resolveUnnamedSnapshot                                                  *)

\* a variant that forgets to leave out the named assertions
unnamedSnapshotAt_anyCall(doc, lineno, noInline) ==
    UNNAMED_SNAPSHOT_ASSERTION(lineAt(doc, lineno))

unnamedSnapshotAt(doc, lineno, noInline) ==
    /\ UNNAMED_SNAPSHOT_ASSERTION(lineAt(doc, lineno))
    /\ NAMED_SNAPSHOT_ASSERTION(lineAt(doc, lineno)) = NoGroup
    /\ (noInline \/ ~STRING_INLINE_SNAPSHOT_ASSERTION(lineAt(doc, lineno)))

\* the test of the while loop that stops at a test function declaration
isTestFunctionAt(doc, scanLine) ==
    /\ scanLine > 1
    /\ FUNCTION(lineAt(doc, scanLine)) # NoGroup
    /\ TEST_DECL(lineAt(doc, scanLine - 1))

\* the while loop: from scanLine down to line 0
RECURSIVE scanBackwards(_, _, _, _, _)
scanBackwards(doc, scanLine, noInline, snapshotNumber, isInline) ==
    IF scanLine < 0
    THEN [ functionName |-> NoGroup, snapshotNumber |-> snapshotNumber,
           isInline |-> isInline ]
    ELSE IF isTestFunctionAt(doc, scanLine)
    THEN [ functionName |-> FUNCTION(lineAt(doc, scanLine)),
           snapshotNumber |-> snapshotNumber, isInline |-> isInline ]
    ELSE scanBackwards(
            doc, scanLine - 1, noInline,
            IF unnamedSnapshotAt(doc, scanLine, noInline)
                THEN snapshotNumber + 1 ELSE snapshotNumber,
            isInline \/ INLINE_MARKER(lineAt(doc, scanLine)))

\* `${stripped}${snapshotNumber > 1 ? `-${snapshotNumber}` : ""}`
derivedName(stripped, snapshotNumber) ==
    stripped \o (IF snapshotNumber > 1
                    THEN << "-" >> \o ToDecimal(snapshotNumber) ELSE <<>>)

\* a variant that asks for the enclosing function of file-based assertions only
resolveUnnamedSnapshot_inlineAnywhere(doc, name, pos, noInline) ==
    IF ~unnamedSnapshotAt(doc, pos, noInline) THEN NullMatch
    ELSE
      LET scan == scanBackwards(doc, pos - 1, noInline, 1,
                                INLINE_MARKER(lineAt(doc, pos)))
          stripped == SNAPSHOT_FUNCTION_STRIP(scan.functionName)
          fileNameMatch == FILENAME_PARTITION(name)
      IN  IF noInline /\ scan.isInline THEN NullMatch
          ELSE IF scan.isInline THEN InlineMatch(pos, FullPath(name))
          ELSE IF scan.functionName = NoGroup THEN NullMatch
          ELSE IF stripped = NoGroup THEN ThrownMatch
          ELSE IF fileNameMatch = NoGroup THEN NullMatch
          ELSE NamedMatch(derivedName(stripped, scan.snapshotNumber),
                          fileNameMatch[1], fileNameMatch[2])

resolveUnnamedSnapshot(doc, name, pos, noInline) ==
    IF ~unnamedSnapshotAt(doc, pos, noInline) THEN NullMatch
    ELSE
      LET scan == scanBackwards(doc, pos - 1, noInline, 1,
                                INLINE_MARKER(lineAt(doc, pos)))
          stripped == SNAPSHOT_FUNCTION_STRIP(scan.functionName)
          fileNameMatch == FILENAME_PARTITION(name)
      IN  IF scan.functionName = NoGroup \/ (noInline /\ scan.isInline)
          THEN NullMatch
          ELSE IF scan.isInline THEN InlineMatch(pos, FullPath(name))
          ELSE IF stripped = NoGroup THEN ThrownMatch
          ELSE IF fileNameMatch = NoGroup THEN NullMatch
          ELSE NamedMatch(derivedName(stripped, scan.snapshotNumber),
                          fileNameMatch[1], fileNameMatch[2])

-----------------------------------------------------------------------------
(* findSnapshotAtLocation: the search for the snapshot file                *)

\* a .snap file: its directory and the parts of its name between `__`
SnapFile(dir, parts) == [ kind |-> "snap", dir |-> dir, parts |-> parts ]
\* document.uri
SourceUri(name) ==
    [ kind |-> "source", dir |-> name.dir, parts |-> << <<name.stem, name.ext>> >> ]
NoUri == [ kind |-> "none", dir |-> <<>>, parts |-> <<>> ]

\* whether `file` matches the glob getSearchPath(mode) builds for `m`:
\*   exact            <path>/snapshots/<module>__<name>.snap
\*   wildcard-prefix  <path>/snapshots/*__<module>__<name>.snap
\*   wildcard-all     <path>/snapshots/*__<module>__*__<name>.snap
getSearchPath(m, mode, file) ==
    LET n == Len(file.parts)
    IN  /\ file.kind = "snap"
        /\ file.dir = m.path \o << "snapshots" >>
        /\ n >= 2
        /\ file.parts[n] = m.snapshotName
        /\ CASE mode = "exact" ->
                 n = 2 /\ file.parts[1] = << m.localModuleName >>
             [] mode = "wildcard-prefix" ->
                 n >= 3 /\ file.parts[n - 1] = << m.localModuleName >>
             [] mode = "wildcard-all" ->
                 \E i \in 2..(n - 2) : file.parts[i] = << m.localModuleName >>

\* workspace.findFiles(path, "", 1): the files one pass may return
findFiles(m, mode, tree) == { f \in tree : getSearchPath(m, mode, f) }

\* a variant that tries the widest pattern first
searchPasses_widestFirst(m, tree) ==
    IF findFiles(m, "wildcard-all", tree) # {}
        THEN findFiles(m, "wildcard-all", tree)
    ELSE IF findFiles(m, "wildcard-prefix", tree) # {}
        THEN findFiles(m, "wildcard-prefix", tree)
    ELSE findFiles(m, "exact", tree)

\* the three passes: the first pass that finds a file decides
searchPasses(m, tree) ==
    IF findFiles(m, "exact", tree) # {} THEN findFiles(m, "exact", tree)
    ELSE IF findFiles(m, "wildcard-prefix", tree) # {}
        THEN findFiles(m, "wildcard-prefix", tree)
    ELSE findFiles(m, "wildcard-all", tree)

\* the SnapshotMatch of  resolveNamedSnapshot(..) || resolveUnnamedSnapshot(..)
resolveSnapshot(doc, name, pos, noInline) ==
    IF resolveNamedSnapshot(doc, name, pos).status # "null"
    THEN resolveNamedSnapshot(doc, name, pos)
    ELSE resolveUnnamedSnapshot(doc, name, pos, noInline)

\* the snapshotUri values findSnapshotAtLocation may resolve to; NoUri is null
snapshotUris(m, name, tree) ==
    IF m.status # "match" THEN { NoUri }
    ELSE IF m.snapshotType = "inline" THEN { SourceUri(name) }
    ELSE IF searchPasses(m, tree) = {} THEN { NoUri }
    ELSE searchPasses(m, tree)

\* before any request; `resolver` records which of the two resolvers decided
NotLocated ==
    [ position |-> -1, noInline |-> FALSE, resolver |-> "none",
      match |-> NullMatch, snapshotUri |-> NoUri, outcome |-> "none" ]

\* what a request returns when the search yields `uri`
Resolved(pos, noInline, uri) ==
    LET m == resolveSnapshot(document, fileName, pos, noInline)
    IN  [ position |-> pos, noInline |-> noInline,
          resolver |->
              IF resolveNamedSnapshot(document, fileName, pos).status # "null"
              THEN "named" ELSE "unnamed",
          match |-> m,
          snapshotUri |-> uri,
          outcome |-> IF m.status = "threw" THEN "threw"
                      ELSE IF uri = NoUri THEN "null" ELSE "match" ]

\* findSnapshotAtLocation(document, position, token, noInline)
findSnapshotAtLocation(pos, noInline) ==
    LET m == resolveSnapshot(document, fileName, pos, noInline)
    IN  \E uri \in snapshotUris(m, fileName, snapshotFiles) :
            /\ located' = Resolved(pos, noInline, uri)
            /\ UNCHANGED <<document, fileName, snapshotFiles, relocated>>

-----------------------------------------------------------------------------
(* The locator on its own                                                  *)

RsFile == [ dir |-> << "src" >>, stem |-> "lib", ext |-> "rs" ]

\* src/snapshots/lib__a.snap, src/snapshots/crate__lib__n1.snap,
\* src/snapshots/crate__lib__tests__a-2.snap
WorkspaceTree ==
    { SnapFile(<< "src", "snapshots" >>, << <<"lib">>, <<"a">> >>),
      SnapFile(<< "src", "snapshots" >>, << <<"crate">>, <<"lib">>, <<"n1">> >>),
      SnapFile(<< "src", "snapshots" >>,
               << <<"crate">>, <<"lib">>, <<"tests">>, <<"a", "-", "2">> >>) }

LocatorInputs ==
    /\ document \in Documents
    /\ fileName = RsFile
    /\ snapshotFiles = WorkspaceTree
    /\ located = NotLocated
    /\ relocated = NotLocated

LocatorAtRest ==
    /\ document = << LineOther >>
    /\ fileName = RsFile
    /\ snapshotFiles = WorkspaceTree
    /\ located = NotLocated
    /\ relocated = NotLocated

\* the snapshot files a workspace may hold: for the name a one file for each
\* of the three patterns, one in another directory, files for the names
\* n1 and a-2, and a second file that the widest pattern matches for a
FileUniverse ==
    { SnapFile(<< "src", "snapshots" >>, << <<"lib">>, <<"a">> >>),
      SnapFile(<< "src", "snapshots" >>, << <<"crate">>, <<"lib">>, <<"a">> >>),
      SnapFile(<< "src", "snapshots" >>,
               << <<"crate">>, <<"lib">>, <<"tests">>, <<"a">> >>),
      SnapFile(<< "tests", "snapshots" >>, << <<"lib">>, <<"a">> >>),
      SnapFile(<< "src", "snapshots" >>, << <<"crate">>, <<"lib">>, <<"n1">> >>),
      SnapFile(<< "src", "snapshots" >>,
               << <<"crate">>, <<"lib">>, <<"tests">>, <<"n1">> >>),
      SnapFile(<< "src", "snapshots" >>,
               << <<"crate">>, <<"lib">>, <<"tests">>, <<"a", "-", "2">> >>),
      SnapFile(<< "src", "snapshots" >>,
               << <<"crate">>, <<"lib">>, <<"other">>, <<"a">> >>) }

\* the documents located in the varying workspaces
SearchDocuments == ExampleDocuments \cup { << LineNamed("n1") >> }

SearchInputs ==
    /\ document \in SearchDocuments
    /\ fileName = RsFile
    /\ snapshotFiles \in SUBSET FileUniverse
    /\ located = NotLocated
    /\ relocated = NotLocated

\* document.fileName values: src/lib.rs, lib.rs without a directory, and
\* src/notes.txt
FileNames ==
    { RsFile,
      [ dir |-> << >>, stem |-> "lib", ext |-> "rs" ],
      [ dir |-> << "src" >>, stem |-> "notes", ext |-> "txt" ] }

\* the documents located under each file name: the examples, and a test
\* function b with a file-based and with an inline assertion
PathDocuments ==
    ExampleDocuments
        \cup { << LineOther, LineTest, LineFnB, LineUnnamed >>,
               << LineOther, LineTest, LineFnB, LineUnnamedInline >> }

PathInputs ==
    /\ document \in PathDocuments
    /\ fileName \in FileNames
    /\ snapshotFiles = WorkspaceTree
    /\ located = NotLocated
    /\ relocated = NotLocated

\* one definition request per behaviour: the provider keeps no state
\* between requests
Locate ==
    /\ located = NotLocated
    /\ relocated = NotLocated
    /\ \E pos \in 0..(lineCount(document) - 1), noInline \in BOOLEAN :
            findSnapshotAtLocation(pos, noInline)
    /\ UNCHANGED <<revVars, regVars, delVars, defVars, patchVars, writeVars,
                   debVars, linkVars>>

\* the request of `located` once more: same document, same position, same
\* workspace
LocateAgain ==
    /\ located # NotLocated
    /\ relocated = NotLocated
    /\ \E uri \in snapshotUris(located.match, fileName, snapshotFiles) :
            relocated' = Resolved(located.position, located.noInline, uri)
    /\ UNCHANGED <<document, fileName, snapshotFiles, located>>
    /\ UNCHANGED <<revVars, regVars, delVars, defVars, patchVars, writeVars,
                   debVars, linkVars>>

-----------------------------------------------------------------------------
(* provideDefinition: where the body of a snapshot file starts             *)

\* A snapshot file is the sequence of its lines, the text split at "\n": a
\* file that ends with a newline has an empty last line.  A line is "dash"
\* (--- and white space only), "blank" (white space only) or "text".
TextLines == { "dash", "blank", "text" }
SnapshotTexts == UNION { [ 1..n -> TextLines ] : n \in 1..MaxTextLines }

\* ---, source: x, ---, body and the empty line after the last newline
HeaderAndBody == << "dash", "text", "dash", "text", "blank" >>

\* String.prototype.match returned null
NoHeader == -1

\* the lines ^--- \s* $ can start on, 1-based
dashLines(text) == { n \in 1..Len(text) : text[n] = "dash" }

\* the lines below line j that the greedy \s* of the closing ---\s*$ runs
\* over: white space includes "\n", and $ holds at the end of each line
blankRun(text, j) ==
    Greatest({ b \in 0..(Len(text) - j) : \A q \in 1..b : text[j + q] = "blank" })

\* stringContents.match(SNAPSHOT_HEADER) for /^---\s*$(.*?)^---\s*$/ms, as
\* the number of "\n" in header[0]: the match starts at the first --- line
\* of the file, the lazy group ends at the next one, and the match ends at
\* the end of the last line \s* reached
SNAPSHOT_HEADER(text) ==
    IF Cardinality(dashLines(text)) < 2 THEN NoHeader
    ELSE LET i == Least(dashLines(text))
             j == Least(dashLines(text) \ { i })
         IN  (j + blankRun(text, j)) - i

NoDefinition == [ status |-> "none", uri |-> NoUri, line |-> 0, character |-> 0 ]

\* new Location(uri, new Position(line, character))
Location(uri, line, character) ==
    [ status |-> "location", uri |-> uri, line |-> line, character |-> character ]

\* the continuation of findSnapshotAtLocation(document, position, token, true)
\* in provideDefinition
provideDefinition ==
    IF located.outcome = "null"
    THEN [ NoDefinition EXCEPT !.status = "null" ]
    ELSE IF SNAPSHOT_HEADER(snapshotText) = NoHeader
    THEN Location(located.snapshotUri, 0, 0)
    ELSE Location(located.snapshotUri, SNAPSHOT_HEADER(snapshotText) + 1, 0)

DefinitionInputs ==
    /\ snapshotText \in SnapshotTexts
    /\ definition = NoDefinition

DefinitionAtRest ==
    /\ snapshotText = HeaderAndBody
    /\ definition = NoDefinition

\* the documents definitions are requested in
DefinitionDocuments == { ThreeUnnamed, << LineNamed("n1") >> }

DefinitionLocatorInputs ==
    /\ document \in DefinitionDocuments
    /\ fileName = RsFile
    /\ snapshotFiles = WorkspaceTree
    /\ located = NotLocated
    /\ relocated = NotLocated

ProvideDefinition ==
    /\ located.noInline
    /\ located.outcome \in { "match", "null" }
    /\ definition = NoDefinition
    /\ definition' = provideDefinition
    /\ UNCHANGED <<locVars, revVars, regVars, delVars, snapshotText, patchVars,
                   writeVars,
                   debVars, linkVars>>

-----------------------------------------------------------------------------
(* performSnapshotAction: accept and reject of file-based snapshots        *)

\* A uri is the sequence of the parts of its path: << "a", ".snap", ".new" >>
\* is a.snap.new.  NoSelection is an undefined uri.
NoSelection == <<>>
Missing == "<missing>"
SnapNames == { "a", "b" }
Contents == { "v1", "v2" }

FsPaths ==
    { << n, ".snap" >> : n \in SnapNames } \cup
    { << n, ".snap", ".new" >> : n \in SnapNames }

\* what a command may be invoked on: a snapshot file, another file, nothing
Selectable == FsPaths \cup { << "main", ".rs" >>, NoSelection }

Calls == 1..MaxCalls

\* workspace.fs.stat / readFile of a path
FileAt(files, path) == IF path \in DOMAIN files THEN files[path] ELSE Missing

\* /\.snap$/  and  /\.snap\.new$/
EndsWithSnap(uri) == Len(uri) >= 1 /\ uri[Len(uri)] = ".snap"
EndsWithSnapNew(uri) ==
    Len(uri) >= 2 /\ uri[Len(uri) - 1] = ".snap" /\ uri[Len(uri)] = ".new"
\* /\.snap(\.new)?$/
IsSnapshotPath(uri) == EndsWithSnap(uri) \/ EndsWithSnapNew(uri)

\* a variant whose first pattern lacks the $ anchor
getSnapshotPairs_unanchored(uri) ==
    IF EndsWithSnap(uri) \/ EndsWithSnapNew(uri)
    THEN << uri, uri \o << ".new" >> >>
    ELSE <<>>

\* [reference, candidate], or <<>> for undefined
getSnapshotPairs(uri) ==
    IF EndsWithSnap(uri) THEN << uri, uri \o << ".new" >> >>
    ELSE IF EndsWithSnapNew(uri) THEN << SubSeq(uri, 1, Len(uri) - 1), uri >>
    ELSE <<>>

\* the uri the command works on: the argument, else the active editor's
\* document, else (when that is no snapshot file) what the forEach over the
\* visible editors leaves in selectedSnapshot
selectSnapshot(arg, active, visible) ==
    IF arg # NoSelection THEN arg
    ELSE IF active # NoSelection /\ ~IsSnapshotPath(active)
    THEN LET hits == { i \in 1..Len(visible) : IsSnapshotPath(visible[i]) }
         IN  IF hits = {} THEN active ELSE visible[Greatest(hits)]
    ELSE active

\* a variant that stats the reference instead of the candidate
acceptStat_reference(files, pair) == FileAt(files, pair[1]) # Missing

\* `await workspace.fs.stat(pair[1])` succeeds
acceptStat(files, pair) == FileAt(files, pair[2]) # Missing

\* `await workspace.fs.rename(pair[1], pair[0], { overwrite: true })`:
\* the files and the message afterwards; a missing source makes rename throw
acceptRename(files, pair) ==
    IF FileAt(files, pair[2]) # Missing
    THEN [ fs |-> [ files EXCEPT ![pair[1]] = files[pair[2]],
                                 ![pair[2]] = Missing ],
           message |-> "New snapshot accepted" ]
    ELSE [ fs |-> files, message |-> "uncaught FileNotFound" ]

\* a variant that deletes the reference along with the candidate
rejectDelete_both(files, pair) ==
    IF FileAt(files, pair[2]) # Missing
    THEN [ fs |-> [ files EXCEPT ![pair[1]] = Missing, ![pair[2]] = Missing ],
           message |-> "New snapshot rejected" ]
    ELSE [ fs |-> [ files EXCEPT ![pair[1]] = Missing ],
           message |-> "No new snapshot to reject" ]

\* a variant without the catch of FileNotFound
rejectDelete_uncaught(files, pair) ==
    IF FileAt(files, pair[2]) # Missing
    THEN [ fs |-> [ files EXCEPT ![pair[2]] = Missing ],
           message |-> "New snapshot rejected" ]
    ELSE [ fs |-> files, message |-> "uncaught FileNotFound" ]

\* `await workspace.fs.delete(pair[1])` and its catch
rejectDelete(files, pair) ==
    IF FileAt(files, pair[2]) # Missing
    THEN [ fs |-> [ files EXCEPT ![pair[2]] = Missing ],
           message |-> "New snapshot rejected" ]
    ELSE [ fs |-> files, message |-> "No new snapshot to reject" ]

\* `Cannot ${action} snapshot: no snapshot selected` and
\* `Cannot ${action} snapshot: not an insta snapshot`
CannotMessage(action, why) ==
    CASE action = "accept" /\ why = "none" ->
            "Cannot accept snapshot: no snapshot selected"
      [] action = "reject" /\ why = "none" ->
            "Cannot reject snapshot: no snapshot selected"
      [] action = "accept" /\ why = "other" ->
            "Cannot accept snapshot: not an insta snapshot"
      [] action = "reject" /\ why = "other" ->
            "Cannot reject snapshot: not an insta snapshot"

IdleCall ==
    [ pc |-> "idle", action |-> "none", selected |-> NoSelection,
      pair |-> <<>>, message |-> "" ]

Finished(action, selected, pair, message) ==
    [ pc |-> "done", action |-> action, selected |-> selected,
      pair |-> pair, message |-> message ]

\* performSnapshotAction(action, selectedSnapshot), up to its first effect on
\* the files: the whole of a reject, and an accept up to the answer of stat.
\* Invocation c starts after invocation c - 1 has started.
performSnapshotAction(c, action, arg) ==
    LET selected == selectSnapshot(arg, activeTextEditor, visibleTextEditors)
        pair == getSnapshotPairs(selected)
        rejected == rejectDelete(fs, pair)
    IN  /\ calls[c].pc = "idle"
        /\ c > 1 => calls[c - 1].pc # "idle"
        /\ IF selected = NoSelection
           THEN /\ calls' = [ calls EXCEPT ![c] = Finished(action, selected, <<>>,
                                CannotMessage(action, "none")) ]
                /\ fs' = fs
           ELSE IF pair = <<>>
           THEN /\ calls' = [ calls EXCEPT ![c] = Finished(action, selected, <<>>,
                                CannotMessage(action, "other")) ]
                /\ fs' = fs
           ELSE IF action = "accept"
           THEN /\ calls' = [ calls EXCEPT ![c] =
                    IF acceptStat(fs, pair)
                    THEN [ pc |-> "rename", action |-> action,
                           selected |-> selected, pair |-> pair, message |-> "" ]
                    ELSE Finished(action, selected, pair,
                                  "Could not accept snapshot: no new snapshot") ]
                /\ fs' = fs
           ELSE /\ calls' = [ calls EXCEPT ![c] =
                    Finished(action, selected, pair, rejected.message) ]
                /\ fs' = rejected.fs
        /\ UNCHANGED <<activeTextEditor, visibleTextEditors>>

\* the accept resumes after stat and renames the candidate over the reference
performSnapshotAction_rename(c) ==
    LET renamed == acceptRename(fs, calls[c].pair)
    IN  /\ calls[c].pc = "rename"
        /\ calls' = [ calls EXCEPT ![c] =
                Finished("accept", calls[c].selected, calls[c].pair,
                         renamed.message) ]
        /\ fs' = renamed.fs
        /\ UNCHANGED <<activeTextEditor, visibleTextEditors>>

\* the test run writes a new candidate <name>.snap.new
WriteCandidate(n, content) ==
    /\ fs[<< n, ".snap", ".new" >>] # content
    /\ fs' = [ fs EXCEPT ![<< n, ".snap", ".new" >>] = content ]
    /\ UNCHANGED <<calls, activeTextEditor, visibleTextEditors>>

\* the editors that may be open when the commands run: none; a.snap.new
\* alone; main.rs with a.snap and b.snap.new beside it
EditorLayouts ==
    { [ active |-> NoSelection, visible |-> <<>> ],
      [ active |-> << "a", ".snap", ".new" >>,
        visible |-> << << "a", ".snap", ".new" >> >> ],
      [ active |-> << "main", ".rs" >>,
        visible |-> << << "main", ".rs" >>, << "a", ".snap" >>,
                       << "b", ".snap", ".new" >> >> ] }

ReviewInputs ==
    /\ fs \in [ FsPaths -> Contents \cup { Missing } ]
    /\ calls = [ c \in Calls |-> IdleCall ]
    /\ \E layout \in EditorLayouts :
            /\ activeTextEditor = layout.active
            /\ visibleTextEditors = layout.visible

ReviewAtRest ==
    /\ fs = [ p \in FsPaths |-> Missing ]
    /\ calls = [ c \in Calls |-> IdleCall ]
    /\ activeTextEditor = NoSelection
    /\ visibleTextEditors = <<>>

Invoke ==
    /\ \E c \in Calls, action \in { "accept", "reject" }, arg \in Selectable :
            performSnapshotAction(c, action, arg)
    /\ UNCHANGED <<locVars, regVars, delVars, defVars, patchVars, writeVars,
                   debVars, linkVars>>

Rename ==
    /\ \E c \in Calls : performSnapshotAction_rename(c)
    /\ UNCHANGED <<locVars, regVars, delVars, defVars, patchVars, writeVars,
                   debVars, linkVars>>

TestRun ==
    /\ \E n \in SnapNames, content \in Contents : WriteCandidate(n, content)
    /\ UNCHANGED <<locVars, regVars, delVars, defVars, patchVars, writeVars,
                   debVars, linkVars>>

-----------------------------------------------------------------------------
(* Discovery: getPendingSnapshots and PendingSnapshotsProvider.getChildren *)

\* findCargoRoots(), in enumeration order
CargoRoots == << "r1", "r2" >>
RootSet == { CargoRoots[i] : i \in 1..Len(CargoRoots) }
Passes == 1..MaxPasses

\* One line of `cargo insta pending-snapshots --as-json`, as JSON.parse sees
\* it.  `line` is <<>> when the object has no line, else the text of its
\* value (<< "null" >> for null); Undefined is the path of an object
\* without one.
Undefined == "<undefined>"
JsonObject(path, line, type) ==
    [ json |-> "object", path |-> path, line |-> line, type |-> type ]
\* text that is not JSON, the empty line, and the JSON values null and 3
NotJson == [ json |-> "invalid", path |-> Undefined, line |-> <<>>, type |-> "" ]
EmptyLine == [ json |-> "empty", path |-> Undefined, line |-> <<>>, type |-> "" ]
JsonNull == [ json |-> "null", path |-> Undefined, line |-> <<>>, type |-> "" ]
JsonNumber == [ json |-> "number", path |-> Undefined, line |-> <<>>, type |-> "" ]

InlineAt3 == JsonObject("src/lib.rs", << "3" >>, "inline_snapshot")
FileSnap == JsonObject("src/snapshots/lib__a.snap", <<>>, "file_snapshot")
FileSnapNullLine ==
    JsonObject("src/snapshots/lib__b.snap", << "null" >>, "file_snapshot")
NoPathObject == JsonObject(Undefined, <<>>, "file_snapshot")

\* what the cargo insta process of one root may print, split at the line
\* ends (the text after the last line end is an empty line), and the exit
\* code it ends with
ReviewerRuns ==
    { [ lines |-> << EmptyLine >>, exitCode |-> 0 ],
      [ lines |-> << InlineAt3, EmptyLine >>, exitCode |-> 0 ],
      [ lines |-> << NotJson, InlineAt3, JsonNull, FileSnap, EmptyLine >>,
        exitCode |-> 0 ],
      [ lines |-> << JsonNumber, NoPathObject, FileSnapNullLine, EmptyLine >>,
        exitCode |-> 0 ],
      [ lines |-> << EmptyLine >>, exitCode |-> 1 ] }

ReviewerOutputs == { run.lines : run \in ReviewerRuns }

\* JSON.parse(line) throws a SyntaxError
JSONparseThrows(line) == line.json \in { "invalid", "empty" }

\* new Snapshot(root, snapshotInfo) throws: snapshotInfo.path of null, or
\* Uri.file of an undefined path
SnapshotThrows(info) == info.json = "null" \/ info.path = Undefined

\* new Snapshot(root, snapshotInfo); `pass` tells the objects of one
\* getChildren call from those of another
Snapshot(root, info, pass) ==
    [ rootUri |-> root,
      key |-> IF info.line # <<>> THEN << info.path, ":" >> \o info.line
              ELSE << info.path >>,
      inlineInfo |-> info.type = "inline_snapshot",
      pass |-> pass ]

NoSnapshot == [ rootUri |-> "", key |-> <<>>, inlineInfo |-> FALSE, pass |-> 0 ]

\* a variant that leaves the loop at the first line that throws
RECURSIVE parseLines_stopAtBadLine(_, _, _)
parseLines_stopAtBadLine(root, output, pass) ==
    IF output = <<>> THEN <<>>
    ELSE IF JSONparseThrows(Head(output)) \/ SnapshotThrows(Head(output))
    THEN <<>>
    ELSE << Snapshot(root, Head(output), pass) >>
            \o parseLines_stopAtBadLine(root, Tail(output), pass)

\* the loop over buffer.split(/\n/g): a line that throws is skipped
RECURSIVE parseLines(_, _, _)
parseLines(root, output, pass) ==
    IF output = <<>> THEN <<>>
    ELSE IF JSONparseThrows(Head(output)) \/ SnapshotThrows(Head(output))
    THEN parseLines(root, Tail(output), pass)
    ELSE << Snapshot(root, Head(output), pass) >>
            \o parseLines(root, Tail(output), pass)

\* the keys that objects built from the printed lines can have
Keys ==
    UNION { { parseLines("r1", out, 0)[i].key :
                i \in 1..Len(parseLines("r1", out, 0)) } :
            out \in ReviewerOutputs }

\* snapshots.map(...) of getChildren: every inline snapshot is stored under
\* its key, in the order of the list
RECURSIVE cacheInline(_, _)
cacheInline(cache, snapshots) ==
    IF snapshots = <<>> THEN cache
    ELSE cacheInline(
            IF Head(snapshots).inlineInfo
                THEN [ cache EXCEPT ![Head(snapshots).key] = Head(snapshots) ]
                ELSE cache,
            Tail(snapshots))

\* `outputs` and `failed` keep what each process printed and which
\* processes ended with a code other than 0
IdlePass ==
    [ status |-> "idle", closed |-> {}, results |-> <<>>,
      outputs |-> [ r \in RootSet |-> <<>> ], failed |-> {} ]

\* getChildren() up to the spawn of one cargo insta process per root; pass p
\* starts after pass p - 1 has started
getChildren(p) ==
    /\ passes[p].status = "idle"
    /\ p > 1 => passes[p - 1].status # "idle"
    /\ passes' = [ passes EXCEPT ![p].status =
                      IF Len(CargoRoots) = 0 THEN "done" ELSE "scanning" ]
    /\ UNCHANGED cachedInlineSnapshots

\* child.on("close") of the process of `root` in pass p: its lines are pushed
\* onto the results of the pass; after the last close Promise.all resolves
\* and getChildren stores the inline snapshots and returns the list
getPendingSnapshotsFor(p, root, output, exitCode) ==
    LET results == passes[p].results \o parseLines(root, output, p)
        closed == passes[p].closed \cup { root }
    IN  /\ passes[p].status = "scanning"
        /\ root \notin passes[p].closed
        /\ passes' = [ passes EXCEPT ![p] =
                [ status |-> IF closed = RootSet THEN "done" ELSE "scanning",
                  closed |-> closed,
                  results |-> results,
                  outputs |-> [ passes[p].outputs EXCEPT ![root] = output ],
                  failed |-> IF exitCode = 0 THEN passes[p].failed
                             ELSE passes[p].failed \cup { root } ] ]
        /\ cachedInlineSnapshots' =
                IF closed = RootSet
                THEN cacheInline(cachedInlineSnapshots, results)
                ELSE cachedInlineSnapshots

RegistryInputs ==
    /\ cachedInlineSnapshots = [ k \in Keys |-> NoSnapshot ]
    /\ passes = [ p \in Passes |-> IdlePass ]

RegistryAtRest == RegistryInputs

StartPass ==
    /\ \E p \in Passes : getChildren(p)
    /\ UNCHANGED <<locVars, revVars, delVars, defVars, patchVars, writeVars,
                   debVars, linkVars>>

ChildClose ==
    /\ \E p \in Passes, root \in RootSet, run \in ReviewerRuns :
            getPendingSnapshotsFor(p, root, run.lines, run.exitCode)
    /\ UNCHANGED <<locVars, revVars, delVars, defVars, patchVars, writeVars,
                   debVars, linkVars>>

-----------------------------------------------------------------------------
(* Delegation: processInlineSnapshot and processAllSnapshots               *)

Delegations == 1..MaxDelegations
Ops == { "accept", "reject" }
\* the codes a cargo insta process may end with
ExitCodes == { 0, 1, 101 }
\* the `roots` processAllSnapshots may be given
RootLists == { <<>>, << "r1" >>, CargoRoots }
\* the tree items processInlineSnapshot may be given
TreeItems ==
    { Snapshot(r, info, 0) : r \in RootSet, info \in { InlineAt3, FileSnap } }

\* cp.spawn("cargo", args, { cwd })
Process(cwd, args) == [ cwd |-> cwd, args |-> args ]

\* a variant that takes every code but 1 for success
exitedZero_notOne(exitCode) == exitCode # 1

\* `exitCode === 0`
exitedZero(exitCode) == exitCode = 0

\* `children` are the processes spawned, `exits` the pairs of a closed
\* process and its exit code, `resolved` the pairs of a closed process and
\* the value its promise resolved with, `result` the value the call
\* resolved with ("pending" before that)
IdleDelegation ==
    [ kind |-> "none", op |-> "none", snapshot |-> NoSnapshot, roots |-> <<>>,
      children |-> {}, exits |-> {}, resolved |-> {}, result |-> "none" ]

Started(kind, op, snapshot, roots, children, result) ==
    [ kind |-> kind, op |-> op, snapshot |-> snapshot, roots |-> roots,
      children |-> children, exits |-> {}, resolved |-> {},
      result |-> result ]

\* processInlineSnapshot(snapshot, op) up to the spawn; call d starts after
\* call d - 1 has started
processInlineSnapshot(d, snapshot, op) ==
    /\ delegations[d].kind = "none"
    /\ d > 1 => delegations[d - 1].kind # "none"
    /\ delegations' = [ delegations EXCEPT ![d] =
            IF ~snapshot.inlineInfo
            THEN Started("inline", op, snapshot, <<>>, {}, "false")
            ELSE Started("inline", op, snapshot, <<>>,
                    { Process(snapshot.rootUri,
                              << "insta", op, "--snapshot", snapshot.key >>) },
                    "pending") ]

\* processAllSnapshots(roots, op) up to the spawns; Promise.all of no
\* promise resolves at once and [].every(..) is true
processAllSnapshots(d, roots, op) ==
    /\ delegations[d].kind = "none"
    /\ d > 1 => delegations[d - 1].kind # "none"
    /\ delegations' = [ delegations EXCEPT ![d] =
            Started("all", op, NoSnapshot, roots,
                    { Process(roots[i], << "insta", op >>) : i \in 1..Len(roots) },
                    IF Len(roots) = 0 THEN "true" ELSE "pending") ]

\* child.on("close") of one process of call d: its promise resolves with
\* exitCode === 0; when it was the last, the call resolves with that value
\* (inline) or with results.every((x) => x) (all)
delegationClose(d, child, exitCode) ==
    LET exits == delegations[d].exits \cup { << child, exitCode >> }
        resolved == delegations[d].resolved
                        \cup { << child, exitedZero(exitCode) >> }
        closed == { pair[1] : pair \in resolved }
    IN  /\ delegations[d].result = "pending"
        /\ child \in delegations[d].children
        /\ child \notin { pair[1] : pair \in delegations[d].resolved }
        /\ delegations' = [ delegations EXCEPT ![d] =
                [ @ EXCEPT !.exits = exits,
                           !.resolved = resolved,
                           !.result =
                              IF closed # delegations[d].children THEN "pending"
                              ELSE IF \A pair \in resolved : pair[2]
                              THEN "true" ELSE "false" ] ]

DelegationAtRest == delegations = [ d \in Delegations |-> IdleDelegation ]

ProcessInline ==
    /\ \E d \in Delegations, snapshot \in TreeItems, op \in Ops :
            processInlineSnapshot(d, snapshot, op)
    /\ UNCHANGED <<locVars, revVars, regVars, defVars, patchVars, writeVars,
                   debVars, linkVars>>

ProcessAll ==
    /\ \E d \in Delegations, roots \in RootLists, op \in Ops :
            processAllSnapshots(d, roots, op)
    /\ UNCHANGED <<locVars, revVars, regVars, defVars, patchVars, writeVars,
                   debVars, linkVars>>

DelegationClose ==
    /\ \E d \in Delegations, exitCode \in ExitCodes :
         \E child \in delegations[d].children :
            delegationClose(d, child, exitCode)
    /\ UNCHANGED <<locVars, revVars, regVars, defVars, patchVars, writeVars,
                   debVars, linkVars>>

\* getInlineSnapshot(uri) for a uri of scheme instaInlineSnapshot with the
\* fragment `key`; NoSnapshot is undefined
getInlineSnapshot(key) ==
    IF key \in DOMAIN cachedInlineSnapshots
    THEN cachedInlineSnapshots[key] ELSE NoSnapshot

\* a decision on the inline snapshot the registry holds under `key`
DecideCached ==
    /\ \E d \in Delegations, key \in Keys, op \in Ops :
            /\ getInlineSnapshot(key) # NoSnapshot
            /\ processInlineSnapshot(d, getInlineSnapshot(key), op)
    /\ UNCHANGED <<locVars, revVars, regVars, defVars, patchVars, writeVars,
                   debVars, linkVars>>

-----------------------------------------------------------------------------
(* The inline literal patcher of cargo insta accept                        *)

\* The characters of a literal and of a value: the quote, the fence
\* character, the r of a raw string and any other character.
Quote == "\""
Hash == "#"
RawPrefix == "r"
Letter == "a"

ValueChars == { Quote, Hash, Letter }
Values == UNION { [ 1..n -> ValueChars ] : n \in 0..MaxValueLen }

Repeat(ch, n) == [ k \in 1..n |-> ch ]

\* the length of the longest run of ch in v
longestRun(ch, v) ==
    Greatest({ n \in 0..Len(v) :
                 \E s \in 1..(Len(v) - n + 1) : \A k \in 0..(n - 1) : v[s + k] = ch })

Max(a, b) == IF a >= b THEN a ELSE b

\* "x": a plain quoted string
plainLiteral(v) == << Quote >> \o v \o << Quote >>

\* r##"x"##: a raw string with a fence of `width` hashes
rawLiteral(width, v) ==
    << RawPrefix >> \o Repeat(Hash, width) \o << Quote >> \o v
        \o << Quote >> \o Repeat(Hash, width)

\* Reading a literal as the compiler does: a raw string with a fence of w
\* hashes ends at the first quote that w hashes follow, a plain string at
\* the first quote.  `ok` says that the literal is the whole text.
readLiteral(text) ==
    LET raw == Len(text) > 0 /\ text[1] = RawPrefix
        start == IF raw THEN 2 ELSE 1
        w == IF raw
             THEN Greatest({ n \in 0..(Len(text) - start + 1) :
                               \A k \in 0..(n - 1) : text[start + k] = Hash })
             ELSE 0
        open == start + w
        closes == { k \in (open + 1)..Len(text) :
                      /\ text[k] = Quote
                      /\ k + w <= Len(text)
                      /\ \A h \in 1..w : text[k + h] = Hash }
    IN  IF open > Len(text) \/ text[open] # Quote \/ closes = {}
        THEN [ ok |-> FALSE, width |-> w, value |-> << >> ]
        ELSE [ ok |-> Least(closes) + w = Len(text),
               width |-> w,
               value |-> SubSeq(text, open + 1, Least(closes) - 1) ]

\* the width the new value needs, whatever the fence of the literal replaced
fenceWidth_noReuse(existing, newValue) == 1 + longestRun(Quote, newValue)

\* max(existing width, 1 + maximal run of the quote character in newValue)
fenceWidth(existing, newValue) ==
    Max(existing, 1 + longestRun(Quote, newValue))

\* the literal patch writes for newValue in place of `literal`
patch(literal, newValue) ==
    rawLiteral(fenceWidth(readLiteral(literal).width, newValue), newValue)

\* the replacement is written whether it reads back or not
verified_writeAnyway(literal, out) == out

\* the text left at the call site: the replacement when it reads back as
\* one whole literal, the original otherwise
verified(literal, out) == IF readLiteral(out).ok THEN out ELSE literal

NotPatched ==
    [ status |-> "none", newValue |-> << >>, existing |-> 0, count |-> 0 ]

\* the literals a call site may hold before a patch: @"", @"a" and raw
\* strings of every fence up to MaxFence
ExistingLiterals ==
    { plainLiteral(v) : v \in { << >>, << Letter >> } }
        \cup { rawLiteral(w, v) : w \in 0..MaxFence, v \in { << >>, << Letter >> } }

PatchInputs ==
    /\ inlineLiteral \in ExistingLiterals
    /\ patched = NotPatched

PatchAtRest ==
    /\ inlineLiteral = plainLiteral(<< >>)
    /\ patched = NotPatched

\* patch(fileText, assertion, newValue): the literal is replaced unless the
\* replacement does not read back as one whole literal, in which case the
\* patch is rejected and the text is left as it was
Patch ==
    /\ patched.count < MaxPatches
    /\ \E newValue \in Values :
        LET out == patch(inlineLiteral, newValue)
        IN  /\ inlineLiteral' = verified(inlineLiteral, out)
            /\ patched' =
                  [ status |-> IF readLiteral(out).ok THEN "written" ELSE "rejected",
                    newValue |-> newValue,
                    existing |-> readLiteral(inlineLiteral).width,
                    count |-> patched.count + 1 ]
    /\ UNCHANGED <<locVars, revVars, regVars, delVars, defVars, writeVars,
                   debVars, linkVars>>

-----------------------------------------------------------------------------
(* Writing the patched text: temporary file, then rename                   *)

\* the patched text is written over the source file itself
writeTarget_inPlace == "source"

\* the file the patched text is written to before the rename
writeTarget == "temp"

IdleWriter ==
    [ pc |-> "idle", original |-> << >>, replacement |-> << >> ]

NotObserved == [ read |-> FALSE, text |-> << >>, written |-> 0 ]

WriteInputs ==
    /\ disk \in { [ source |-> text, temp |-> << >>, tempExists |-> FALSE ] :
                    text \in ExistingLiterals }
    /\ writer = IdleWriter
    /\ observed = NotObserved

WriteAtRest ==
    /\ disk = [ source |-> plainLiteral(<< >>), temp |-> << >>, tempExists |-> FALSE ]
    /\ writer = IdleWriter
    /\ observed = NotObserved

\* the file is created, or truncated, when it is opened for writing; a
\* rejected patch opens nothing
BeginWrite ==
    /\ writer.pc = "idle"
    /\ \E newValue \in Values :
        LET out == patch(disk.source, newValue)
        IN  IF readLiteral(out).ok
            THEN /\ writer' = [ pc |-> "writing", original |-> disk.source,
                                replacement |-> out ]
                 /\ disk' = [ [ disk EXCEPT ![writeTarget] = << >> ]
                                EXCEPT !.tempExists = (writeTarget = "temp") ]
            ELSE /\ writer' = [ pc |-> "done", original |-> disk.source,
                                replacement |-> disk.source ]
                 /\ UNCHANGED disk
    /\ UNCHANGED <<locVars, revVars, regVars, delVars, defVars, patchVars, observed,
                   debVars, linkVars>>

\* one more character of the patched text reaches the file
WriteChunk ==
    /\ writer.pc = "writing"
    /\ Len(disk[writeTarget]) < Len(writer.replacement)
    /\ disk' = [ disk EXCEPT ![writeTarget] =
                    Append(@, writer.replacement[Len(@) + 1]) ]
    /\ UNCHANGED <<locVars, revVars, regVars, delVars, defVars, patchVars,
                   writer, observed,
                   debVars, linkVars>>

\* the temporary file is renamed over the source file in one step
RenameTemp ==
    /\ writer.pc = "writing"
    /\ Len(disk[writeTarget]) = Len(writer.replacement)
    /\ disk' = IF disk.tempExists
               THEN [ source |-> disk.temp, temp |-> << >>, tempExists |-> FALSE ]
               ELSE disk
    /\ writer' = [ writer EXCEPT !.pc = "done" ]
    /\ UNCHANGED <<locVars, revVars, regVars, delVars, defVars, patchVars, observed,
                   debVars, linkVars>>

\* a file watcher, or any other reader, reads the source file
ReadSource ==
    /\ observed' =
          [ read |-> TRUE, text |-> disk.source,
            written |-> IF writer.pc = "writing" THEN Len(disk[writeTarget]) ELSE 0 ]
    /\ observed' # observed
    /\ UNCHANGED <<locVars, revVars, regVars, delVars, defVars, patchVars,
                   disk, writer,
                   debVars, linkVars>>

-----------------------------------------------------------------------------
(* SnapshotDocumentLinkProvider                                            *)

\* A line of a snapshot document is what it starts with and the rest of
\* it, trimmed: `source: src/a.rs` is [key |-> "source", value |-> "src/a.rs"].
SnapLine(key, value) == [ key |-> key, value |-> value ]
DashLine == SnapLine("---", "")
SourceLine(path) == SnapLine("source", path)
AssertionLine(n) == SnapLine("assertion_line", n)
ExpressionLine == SnapLine("expression", "value")
BodyText == SnapLine("text", "")

\* the headers of the snapshot files: with a workspace-relative source,
\* with an assertion line as well, without a source, with an absolute source
LinkHeaders ==
    { << DashLine, SourceLine("src/a.rs"), ExpressionLine, DashLine >>,
      << DashLine, SourceLine("src/a.rs"), AssertionLine("3"), ExpressionLine,
         DashLine >>,
      << DashLine, ExpressionLine, DashLine >>,
      << DashLine, SourceLine("/abs/c.rs"), DashLine >> }

\* the lines of a snapshot body: text, and text that happens to start with
\* source: or with assertion_line:
BodyLines == { BodyText, SourceLine("src/b.rs"), AssertionLine("7") }

LinkDocuments ==
    { header \o body :
        header \in LinkHeaders,
        body \in UNION { [ 1..n -> BodyLines ] : n \in 0..MaxBodyLines } }

\* text.startsWith(key + ":"), for every line of the document
linesStartingWith(doc, key) == { i \in 1..Len(doc) : doc[i].key = key }

NoSourceLink ==
    [ found |-> FALSE, sourcePath |-> "", range |-> [ line |-> -1 ],
      line |-> Undefined ]

\* extractSourceLink(document): the loop runs over all lines, and a later
\* line overwrites what an earlier one set; the range is the whole of
\* line sourceLineIndex
extractSourceLink(doc) ==
    LET sources == linesStartingWith(doc, "source")
        numbers == linesStartingWith(doc, "assertion_line")
    IN  IF sources = {} \/ doc[Greatest(sources)].value = ""
        THEN NoSourceLink
        ELSE [ found |-> TRUE,
               sourcePath |-> doc[Greatest(sources)].value,
               range |-> [ line |-> Greatest(sources) - 1 ],
               line |-> IF numbers = {} THEN Undefined
                        ELSE doc[Greatest(numbers)].value ]

\* path.isAbsolute(sourcePath)
AbsolutePaths == { "/abs/c.rs" }

\* resolveSourceUri(document, sourcePath), the document being in the
\* workspace folder /ws
resolveSourceUri(sourcePath) ==
    IF sourcePath \in AbsolutePaths THEN << sourcePath >>
    ELSE << "/ws", sourcePath >>

NotAsked == [ asked |-> FALSE, links |-> << >> ]

\* provideDocumentLinks(document)
provideDocumentLinks(doc) ==
    LET info == extractSourceLink(doc)
    IN  [ asked |-> TRUE,
          links |-> IF ~info.found THEN << >>
                    ELSE << [ range |-> info.range,
                              target |-> resolveSourceUri(info.sourcePath),
                              line |-> info.line ] >> ]

LinkInputs ==
    /\ snapDocument \in LinkDocuments
    /\ documentLinks = NotAsked

LinksAtRest ==
    /\ snapDocument = << DashLine, ExpressionLine, DashLine >>
    /\ documentLinks = NotAsked

ProvideDocumentLinks ==
    /\ documentLinks = NotAsked
    /\ documentLinks' = provideDocumentLinks(snapDocument)
    /\ UNCHANGED <<locVars, revVars, regVars, delVars, defVars, patchVars,
                   writeVars, debVars, snapDocument>>

-----------------------------------------------------------------------------
(* PendingSnapshotsProvider.refreshDebounced                               *)

\* the delay given to setTimeout, in ms
Delay == 200

\* time advances in steps of half the delay
Step == Delay \div 2

\* pendingRefresh === undefined
NoTimer == 0

\* setTimeout(callback, Delay) at `time`: the timer with handle `id`
Timeout(id, time) == [ id |-> id, due |-> time + Delay ]

\* a variant that sets the new timer and leaves the pending one running
refreshDebounced_noClear(ts, pending, id, time) ==
    ts \cup { Timeout(id, time) }

\* the timers of the host after refreshDebounced(): the pending one is
\* cleared when there is one, and a new one is set
refreshDebounced(ts, pending, id, time) ==
    { t \in ts : pending = NoTimer \/ t.id # pending } \cup { Timeout(id, time) }

\* the host runs the callback of a timer that is due before it delivers
\* anything else
TimerDue == \E t \in timers : t.due <= now

DebounceAtRest ==
    /\ now = 0
    /\ pendingRefresh = NoTimer
    /\ timers = {}
    /\ callTimes = << >>
    /\ refreshTimes = << >>

RefreshDebounced ==
    /\ ~TimerDue
    /\ Len(callTimes) < MaxRefreshCalls
    /\ now < MaxSteps * Step
    /\ timers' = refreshDebounced(timers, pendingRefresh, Len(callTimes) + 1, now)
    /\ pendingRefresh' = Len(callTimes) + 1
    /\ callTimes' = Append(callTimes, now)
    /\ UNCHANGED <<now, refreshTimes>>
    /\ UNCHANGED <<locVars, revVars, regVars, delVars, defVars, patchVars,
                   writeVars, linkVars>>

\* the callback of setTimeout: pendingRefresh = undefined; refresh()
TimerFires ==
    /\ \E t \in timers :
        /\ t.due <= now
        /\ timers' = timers \ { t }
    /\ pendingRefresh' = NoTimer
    /\ refreshTimes' = Append(refreshTimes, now)
    /\ UNCHANGED <<now, callTimes>>
    /\ UNCHANGED <<locVars, revVars, regVars, delVars, defVars, patchVars,
                   writeVars, linkVars>>

\* time passes while no timer is due
Tick ==
    /\ ~TimerDue
    /\ now < MaxSteps * Step \/ timers # {}
    /\ now' = now + Step
    /\ UNCHANGED <<pendingRefresh, timers, callTimes, refreshTimes>>
    /\ UNCHANGED <<locVars, revVars, regVars, delVars, defVars, patchVars,
                   writeVars, linkVars>>

-----------------------------------------------------------------------------
(* Properties of the locator                                               *)

\* a test-function header, as the scanner's contract words it: a function
\* declaration on line h with the test annotation on line h - 1
TestHeaderAt(doc, h) ==
    /\ h >= 1
    /\ FUNCTION(lineAt(doc, h)) # NoGroup
    /\ TEST_DECL(lineAt(doc, h - 1))

HeadersBefore(doc, p) == { h \in 1..(p - 1) : TestHeaderAt(doc, h) }

\* a line that holds an assertion call and no named assertion call
UnnamedCallLine(line) ==
    UNNAMED_SNAPSHOT_ASSERTION(line) /\ NAMED_SNAPSHOT_ASSERTION(line) = NoGroup

\* 1 + the number of unnamed assertion lines strictly between h and p
OrdinalWithinFunction(doc, h, p) ==
    1 + Cardinality({ s \in (h + 1)..(p - 1) : UnnamedCallLine(lineAt(doc, s)) })

\* C1: a name derived by unnamed resolution at line p is the name of the
\* nearest test function before p, without its test_ prefix, followed by
\* nothing when the ordinal k of the assertion is 1 and by -k when k > 1,
\* where k = 1 + the number of unnamed assertion lines strictly between the
\* header and p.
C1_OrdinalSuffix ==
    (/\ located.resolver = "unnamed"
     /\ located.match.status = "match"
     /\ located.match.snapshotType = "named")
    => LET p == located.position
           hs == HeadersBefore(document, p)
       IN  /\ hs # {}
           /\ LET h == Greatest(hs)
                  k == OrdinalWithinFunction(document, h, p)
                  stem == Tail(FUNCTION(lineAt(document, h)))
              IN  located.match.snapshotName =
                    IF k = 1 THEN stem ELSE stem \o << "-" >> \o ToDecimal(k)

\* the third of three unnamed assertions of test_a resolves to a-3
C1_Witness ==
    /\ document = ThreeUnnamed
    /\ located.position = 7
    /\ located.resolver = "unnamed"
    /\ located.match.snapshotName = << "a", "-", "3" >>

\* C2: locating a line that holds a named assertion call returns the name
\* literal of that call as the snapshot name.
C2_NamedLiteralReturned ==
    (/\ located.position >= 0
     /\ NAMED_SNAPSHOT_ASSERTION(lineAt(document, located.position)) # NoGroup)
    => /\ located.match.status = "match"
       /\ located.match.snapshotName =
            NAMED_SNAPSHOT_ASSERTION(lineAt(document, located.position))

\* C3: when unnamed resolution runs on an unnamed assertion, inline or
\* file-based, that no test-function header precedes, the request returns
\* no match: no name, no path, no snapshot file.
C3_NoHeaderNoMatch ==
    (/\ located.resolver = "unnamed"
     /\ UnnamedCallLine(lineAt(document, located.position))
     /\ HeadersBefore(document, located.position) = {})
    => /\ located.match = NullMatch
       /\ located.snapshotUri = NoUri
       /\ located.outcome = "null"

\* an inline assertion outside every test function, located with inline
\* snapshots allowed, after a scan over at least two lines
C3_Witness ==
    /\ located.resolver = "unnamed"
    /\ ~located.noInline
    /\ located.position >= 2
    /\ UnnamedCallLine(lineAt(document, located.position))
    /\ INLINE_MARKER(lineAt(document, located.position))
    /\ HeadersBefore(document, located.position) = {}
    /\ located.outcome = "null"

\* the function name without a leading test_, or the whole name when it has
\* no such prefix
WithoutTestPrefix(fn) ==
    IF fn # <<>> /\ Head(fn) = "test_" THEN Tail(fn) ELSE fn

\* C16: an unnamed assertion that is not inline, located inside a test
\* function with no inline assertion before it, resolves, and to the
\* function's name without a leading test_ (the whole name when it has no
\* such prefix) followed by the ordinal suffix; the request does not throw.
C16_TestPrefixOptional ==
    LET p == located.position
        hs == HeadersBefore(document, p) \ { 1 }
    IN  (/\ located.resolver = "unnamed"
         /\ UnnamedCallLine(lineAt(document, p))
         /\ hs # {}
         /\ \A n \in Greatest(hs)..p : ~INLINE_MARKER(lineAt(document, n)))
        => LET h == Greatest(hs)
               k == OrdinalWithinFunction(document, h, p)
               stem == WithoutTestPrefix(FUNCTION(lineAt(document, h)))
           IN  /\ located.outcome # "threw"
               /\ located.match.status = "match"
               /\ located.match.snapshotName =
                     IF k = 1 THEN stem ELSE stem \o << "-" >> \o ToDecimal(k)

\* C24: unnamed resolution classifies the located assertion as inline
\* exactly when the located line itself carries the @ literal marker; a
\* marker on a line between the test-function header and the located line
\* leaves a file-based assertion file-based.
C24_InlineByLocatedLine ==
    (/\ located.resolver = "unnamed"
     /\ located.match.status = "match")
    => ( (located.match.snapshotType = "inline")
            <=> INLINE_MARKER(lineAt(document, located.position)) )

\* C25: unnamed resolution of a file-based assertion at line p stops at the
\* nearest test-function header before p and derives the name from its
\* function, wherever that header is: also with the annotation on line 0
\* and the declaration on line 1.
C25_NearestHeaderAnywhere ==
    LET p == located.position
        hs == HeadersBefore(document, p)
    IN  (/\ located.resolver = "unnamed"
         /\ UnnamedCallLine(lineAt(document, p))
         /\ hs # {}
         /\ SNAPSHOT_FUNCTION_STRIP(FUNCTION(lineAt(document, Greatest(hs)))) # NoGroup
         /\ \A n \in Greatest(hs)..p : ~INLINE_MARKER(lineAt(document, n)))
        => LET h == Greatest(hs)
               k == OrdinalWithinFunction(document, h, p)
               stem == SNAPSHOT_FUNCTION_STRIP(FUNCTION(lineAt(document, h)))
           IN  /\ located.match.status = "match"
               /\ located.match.snapshotName =
                     IF k = 1 THEN stem ELSE stem \o << "-" >> \o ToDecimal(k)

\* C26: a line that holds an unnamed assertion call and no named one is
\* resolved by unnamed resolution also when the line before it holds a
\* named assertion, and the name of that call is not what is returned.
C26_UnnamedBelowNamed ==
    LET p == located.position
    IN  (/\ p >= 1
         /\ UnnamedCallLine(lineAt(document, p))
         /\ NAMED_SNAPSHOT_ASSERTION(lineAt(document, p - 1)) # NoGroup)
        => /\ located.resolver = "unnamed"
           /\ located.match.snapshotName #
                 NAMED_SNAPSHOT_ASSERTION(lineAt(document, p - 1))

\* C27: when the file name of the document does not split into a directory
\* and a module with the extension rs, a request that is not for an inline
\* assertion returns no match, named or unnamed; a request for an inline
\* assertion inside a test function returns the document's own path and
\* the located line.
C27_NoModuleNoFileMatch ==
    LET p == located.position
    IN  (/\ FILENAME_PARTITION(fileName) = NoGroup
         /\ located.outcome # "none")
        => /\ located.match.snapshotType # "inline"
                => ( located.outcome = "null" /\ located.match = NullMatch )
           /\ ( /\ located.resolver = "unnamed"
                /\ ~located.noInline
                /\ unnamedSnapshotAt(document, p, FALSE)
                /\ INLINE_MARKER(lineAt(document, p))
                /\ HeadersBefore(document, p) \ { 1 } # {} )
                => ( /\ located.match = InlineMatch(p, FullPath(fileName))
                     /\ located.snapshotUri = SourceUri(fileName) )

\* C23: the same request made twice on the unmodified document and the
\* unchanged workspace returns the same thing both times: the same match
\* (name, path, module, type) and snapshot file, or no match.
C23_LocateIsDeterministic ==
    relocated # NotLocated => relocated = located

\* C15: a file-based resolution returns a file of the exact pattern when the
\* workspace holds one, else a file of the wildcard-prefix pattern when it
\* holds one, else a file of the wildcard prefix-and-suffix pattern, and it
\* returns no match exactly when the workspace holds no file of any of the
\* three patterns.
C15_FirstPassWins ==
    (located.match.status = "match" /\ located.match.snapshotType = "named")
      => LET exact == findFiles(located.match, "exact", snapshotFiles)
             prefix == findFiles(located.match, "wildcard-prefix", snapshotFiles)
             all == findFiles(located.match, "wildcard-all", snapshotFiles)
         IN  /\ exact # {} => located.snapshotUri \in exact
             /\ (exact = {} /\ prefix # {}) => located.snapshotUri \in prefix
             /\ (exact = {} /\ prefix = {} /\ all # {})
                    => located.snapshotUri \in all
             /\ (located.snapshotUri = NoUri)
                    = (exact \cup prefix \cup all = {})
             /\ (located.outcome = "null") = (located.snapshotUri = NoUri)

\* the workspace holds crate__lib__a.snap and crate__lib__tests__a.snap and
\* no lib__a.snap: the first unnamed assertion of test_a resolves to the
\* former
C15_Witness ==
    /\ document = ThreeUnnamed
    /\ located.position = 3
    /\ SnapFile(<< "src", "snapshots" >>, << <<"lib">>, <<"a">> >>)
            \notin snapshotFiles
    /\ SnapFile(<< "src", "snapshots" >>,
                << <<"crate">>, <<"lib">>, <<"tests">>, <<"a">> >>)
            \in snapshotFiles
    /\ located.snapshotUri =
            SnapFile(<< "src", "snapshots" >>, << <<"crate">>, <<"lib">>, <<"a">> >>)

-----------------------------------------------------------------------------
(* Properties of provideDefinition                                         *)

\* the 1-based number of the closing --- of a header that opens the file
closingLine(text) == Least(dashLines(text) \ { 1 })

\* the file opens with a header of two --- lines and its body, the lines
\* after the closing ---, holds some text
HeaderThenBody(text) ==
    /\ text[1] = "dash"
    /\ Cardinality(dashLines(text)) >= 2
    /\ \E n \in (closingLine(text) + 1)..Len(text) : text[n] = "text"

\* C18: for a snapshot file that starts with a header delimited by two ---
\* lines, the definition returned is column 0 of the first line after the
\* closing ---, whatever the lines of the body are; for a file with fewer
\* than two --- lines it is line 0, column 0.
C18_DefinitionAtBodyStart ==
    definition.status = "location" =>
        /\ definition.character = 0
        /\ HeaderThenBody(snapshotText)
                => definition.line = closingLine(snapshotText)
        /\ Cardinality(dashLines(snapshotText)) < 2 => definition.line = 0

-----------------------------------------------------------------------------
(* Properties of accept and reject                                         *)

RefOf(n) == << n, ".snap" >>
CandOf(n) == << n, ".snap", ".new" >>

\* invocation c of `action` on snapshot n runs from its start to its first
\* effect in this step
Starts(c, action, n) ==
    /\ calls[c].pc = "idle"
    /\ calls'[c].pc # "idle"
    /\ calls'[c].action = action
    /\ calls'[c].selected \in { RefOf(n), CandOf(n) }

\* `calls[c]` is a finished `action` that ended with `message`
Ended(c, action, message) ==
    /\ calls[c].pc = "done"
    /\ calls[c].action = action
    /\ calls[c].message = message

\* C4: an accept of snapshot n whose candidate exists, started on n.snap or
\* on n.snap.new, passes its check with the pair [n.snap, n.snap.new] and
\* without touching a file, and its rename leaves the reference with the
\* candidate's former content and the candidate gone.
C4_AcceptReplacesReference ==
    [][ \A c \in Calls, n \in SnapNames :
          /\ (Starts(c, "accept", n) /\ fs[CandOf(n)] # Missing)
                => /\ calls'[c].pc = "rename"
                   /\ calls'[c].pair = << RefOf(n), CandOf(n) >>
                   /\ fs' = fs
          /\ (/\ calls[c].pc = "rename" /\ calls'[c].pc = "done"
              /\ calls[c].selected \in { RefOf(n), CandOf(n) }
              /\ fs[CandOf(n)] # Missing)
                => /\ fs' = [ fs EXCEPT ![RefOf(n)] = fs[CandOf(n)],
                                        ![CandOf(n)] = Missing ]
                   /\ calls'[c].message = "New snapshot accepted"
      ]_vars

\* one accept started on a.snap and one started on b.snap.new have both
\* replaced their reference
C4_Witness ==
    /\ Ended(1, "accept", "New snapshot accepted")
    /\ calls[1].selected = RefOf("a")
    /\ Ended(2, "accept", "New snapshot accepted")
    /\ calls[2].selected = CandOf("b")
    /\ fs[RefOf("a")] = "v2" /\ fs[CandOf("a")] = Missing
    /\ fs[RefOf("b")] = "v1" /\ fs[CandOf("b")] = Missing

\* C5: an accept of a snapshot whose candidate does not exist ends at once
\* with the error 'Could not accept snapshot: no new snapshot' and leaves
\* every file as it was.
C5_AcceptWithoutCandidate ==
    [][ \A c \in Calls, n \in SnapNames :
          (Starts(c, "accept", n) /\ fs[CandOf(n)] = Missing)
            => /\ calls'[c].pc = "done"
               /\ calls'[c].message = "Could not accept snapshot: no new snapshot"
               /\ fs' = fs
      ]_vars

\* an accept of a.snap, which exists and has no candidate, has ended with
\* the error
C5_Witness ==
    /\ Ended(1, "accept", "Could not accept snapshot: no new snapshot")
    /\ calls[1].selected = RefOf("a")
    /\ fs[RefOf("a")] = "v1"
    /\ fs[CandOf("a")] = Missing

\* C6: a reject of snapshot n leaves every file but n.snap.new as it was,
\* the reference n.snap included, and n.snap.new does not exist afterwards,
\* whether or not it existed before.
C6_RejectDeletesOnlyCandidate ==
    [][ \A c \in Calls, n \in SnapNames :
          Starts(c, "reject", n)
            => /\ calls'[c].pc = "done"
               /\ \A path \in FsPaths \ { CandOf(n) } : fs'[path] = fs[path]
               /\ fs'[CandOf(n)] = Missing
      ]_vars

\* a reject has deleted the candidate of a.snap and a.snap is still there
C6_Witness ==
    /\ Ended(1, "reject", "New snapshot rejected")
    /\ calls[1].selected = CandOf("a")
    /\ fs[RefOf("a")] = "v1"
    /\ fs[CandOf("a")] = Missing
    /\ calls[2].pc = "idle"

\* C7: a reject of a snapshot whose candidate does not exist changes no file
\* and ends with the information 'No new snapshot to reject'; and in every
\* state, a reject applied to the files a reject has left is such a reject,
\* so two rejects in a row leave the files as one reject leaves them.
C7_RejectTwiceIsRejectOnce ==
    [][ \A c \in Calls, n \in SnapNames :
          LET pair == getSnapshotPairs(CandOf(n))
              once == rejectDelete(fs, pair)
              twice == rejectDelete(once.fs, pair)
          IN  /\ (Starts(c, "reject", n) /\ fs[CandOf(n)] = Missing)
                    => /\ fs' = fs
                       /\ calls'[c].pc = "done"
                       /\ calls'[c].message = "No new snapshot to reject"
              /\ twice.fs = once.fs
              /\ twice.message = "No new snapshot to reject"
      ]_vars

\* two rejects of a.snap.new in a row: the first deleted it, the second
\* found nothing to reject
C7_Witness ==
    /\ Ended(1, "reject", "New snapshot rejected")
    /\ calls[1].selected = CandOf("a")
    /\ Ended(2, "reject", "No new snapshot to reject")
    /\ calls[2].selected = CandOf("a")
    /\ fs[CandOf("a")] = Missing

\* C8: an accept that has passed its check and has still to rename finds the
\* candidate in place: no other accept or reject of the same snapshot has
\* taken it away in between.
C8_AcceptKeepsItsCandidate ==
    \A c \in Calls :
        calls[c].pc = "rename" => FileAt(fs, calls[c].pair[2]) # Missing

\* the visible editors that show a snapshot file, by their place in
\* window.visibleTextEditors
VisibleSnapshots ==
    { i \in 1..Len(visibleTextEditors) : IsSnapshotPath(visibleTextEditors[i]) }

\* C29: a command invoked without a selected snapshot, while the active
\* editor shows a file that is not a snapshot file, acts on the first of the
\* visible editors, in their order, that shows a snapshot file.
C29_FirstVisibleSnapshot ==
    (/\ \E c \in Calls : calls[c].pc # "idle"
     /\ activeTextEditor # NoSelection
     /\ ~IsSnapshotPath(activeTextEditor)
     /\ VisibleSnapshots # {})
    => selectSnapshot(NoSelection, activeTextEditor, visibleTextEditors)
          = visibleTextEditors[Least(VisibleSnapshots)]

-----------------------------------------------------------------------------
(* Properties of discovery                                                 *)

\* the keys of the entries that the lines of one output make
ReportedKeys(output) ==
    { parseLines("", output, 0)[i].key :
        i \in 1..Len(parseLines("", output, 0)) }

\* the positions, in root enumeration order, of the roots that reported key
\* k in pass p
Reporters(p, k) ==
    { i \in 1..Len(CargoRoots) :
        /\ CargoRoots[i] \in passes[p].closed
        /\ k \in ReportedKeys(passes[p].outputs[CargoRoots[i]]) }

\* C9: the list a finished pass returns holds, for every key that some root
\* reported, exactly one entry, and it is the entry of the first of the
\* reporting roots in enumeration order.
C9_FirstRootWins ==
    \A p \in Passes, k \in Keys :
        (passes[p].status = "done" /\ Reporters(p, k) # {})
          => LET hits == { j \in 1..Len(passes[p].results) :
                              passes[p].results[j].key = k }
             IN  /\ Cardinality(hits) = 1
                 /\ \A j \in hits :
                      passes[p].results[j].rootUri =
                          CargoRoots[Least(Reporters(p, k))]

\* the finished passes that reported key k as an inline snapshot
InlineReporters(k) ==
    { p \in Passes :
        /\ passes[p].status = "done"
        /\ \E j \in 1..Len(passes[p].results) :
              /\ passes[p].results[j].key = k
              /\ passes[p].results[j].inlineInfo }

\* C10: when no pass is under way, the entry the registry holds for a key is
\* an entry of the most recently started of the passes that reported the key.
C10_LatestStartedPassWins ==
    (\A p \in Passes : passes[p].status # "scanning")
      => \A k \in Keys :
            InlineReporters(k) # {}
              => cachedInlineSnapshots[k].pass = Greatest(InlineReporters(k))

\* C11: when a decision on the inline snapshot of a key has been applied
\* (its cargo insta process ended with code 0) and no pass has started since
\* the pass that stored the key, a lookup of the key finds nothing.
C11_DecidedEntryIsGone ==
    \A d \in Delegations :
        (/\ delegations[d].kind = "inline"
         /\ delegations[d].result = "true"
         /\ \A p \in Passes \ { 1 } : passes[p].status = "idle")
          => getInlineSnapshot(delegations[d].snapshot.key) = NoSnapshot

\* a line that is a JSON object with a path
WellFormed(line) == line.json = "object" /\ line.path # Undefined

\* C12: in every pass, the entries made from the output of a root whose
\* process has closed are, in order, one entry for each well-formed line of
\* that output, whatever malformed lines stand between them; and the pass
\* completes once every root has closed.
C12_BadLinesAreSkipped ==
    \A p \in Passes :
        /\ passes[p].closed = RootSet => passes[p].status = "done"
        /\ \A r \in passes[p].closed :
              LET FromRoot(e) == e.rootUri = r
                  lines == SelectSeq(passes[p].outputs[r], WellFormed)
                  entries == SelectSeq(passes[p].results, FromRoot)
              IN  /\ Len(entries) = Len(lines)
                  /\ \A j \in 1..Len(lines) :
                        entries[j] = Snapshot(r, lines[j], p)

\* a finished pass whose first root printed two well-formed lines among
\* three malformed ones and whose second root printed one among three
C12_Witness ==
    /\ passes[1].status = "done"
    /\ passes[1].outputs["r1"] =
          << NotJson, InlineAt3, JsonNull, FileSnap, EmptyLine >>
    /\ passes[1].outputs["r2"] =
          << JsonNumber, NoPathObject, FileSnapNullLine, EmptyLine >>
    /\ Len(passes[1].results) = 3

\* C13: a pass that has returned a list of snapshots is a pass none of
\* whose processes ended with a code other than 0.
C13_FailedDiscoveryIsFailure ==
    \A p \in Passes : passes[p].status = "done" => passes[p].failed = {}

\* the key the protocol gives an object: <path>:<line> for an inline
\* snapshot with a line, <path> otherwise
ProtocolKey(line) ==
    IF line.type = "inline_snapshot" /\ line.line \notin { <<>>, << "null" >> }
    THEN << line.path, ":" >> \o line.line
    ELSE << line.path >>

\* C17: the key of every entry of a pass is the protocol's key of one of the
\* well-formed lines its root printed.
C17_KeyFollowsType ==
    \A p \in Passes :
        \A j \in 1..Len(passes[p].results) :
            LET e == passes[p].results[j]
                out == passes[p].outputs[e.rootUri]
            IN  \E n \in 1..Len(out) :
                    WellFormed(out[n]) /\ e.key = ProtocolKey(out[n])

-----------------------------------------------------------------------------
(* Properties of delegation                                                *)

\* C14: a call for one inline snapshot launches the one process
\* `cargo insta <op> --snapshot <key>` in the snapshot's root, a call for all
\* snapshots one process `cargo insta <op>` in each root; the call resolves
\* when all of them have closed, and with true exactly when every one of
\* them ended with code 0.
C14_SuccessIffAllExitZero ==
    \A d \in Delegations :
        LET g == delegations[d]
            closed == { pair[1] : pair \in g.exits }
        IN  (g.kind = "all" \/ (g.kind = "inline" /\ g.snapshot.inlineInfo))
              => /\ g.kind = "inline" =>
                      g.children =
                        { Process(g.snapshot.rootUri,
                            << "insta", g.op, "--snapshot", g.snapshot.key >>) }
                 /\ g.kind = "all" =>
                      g.children =
                        { Process(g.roots[i], << "insta", g.op >>) :
                            i \in 1..Len(g.roots) }
                 /\ (g.result = "pending") = (closed # g.children)
                 /\ g.result # "pending" =>
                      ((g.result = "true") = (\A pair \in g.exits : pair[2] = 0))

\* an accept of all snapshots of two roots that ended false because one of
\* its two processes ended with code 101, and a reject of one inline
\* snapshot that ended true
C14_Witness ==
    /\ delegations[1].kind = "all"
    /\ delegations[1].op = "accept"
    /\ delegations[1].exits =
          { << Process("r1", << "insta", "accept" >>), 0 >>,
            << Process("r2", << "insta", "accept" >>), 101 >> }
    /\ delegations[1].result = "false"
    /\ delegations[2].kind = "inline"
    /\ delegations[2].op = "reject"
    /\ delegations[2].exits # {}
    /\ delegations[2].result = "true"

-----------------------------------------------------------------------------
(* Properties of the patcher                                               *)

\* C19: after a patch with the value v, reading the literal of the
\* assertion back yields exactly v, for every v, those that hold a quote
\* followed by hashes included.
C19_PatchRoundTrips ==
    patched.status # "none" =>
        /\ readLiteral(inlineLiteral).ok
        /\ readLiteral(inlineLiteral).value = patched.newValue

\* C21: when the replacement does not read back as one whole literal, the
\* patch ends rejected, which is what the caller is told, and the text at
\* the call site is what it was before the patch.
C21_RejectedPatchLeavesText ==
    [][ ( /\ patched'.count = patched.count + 1
          /\ ~readLiteral(patch(inlineLiteral, patched'.newValue)).ok )
        => ( /\ patched'.status = "rejected"
             /\ inlineLiteral' = inlineLiteral ) ]_vars

\* a patch with the value "## was rejected
C21_Witness ==
    /\ patched.status = "rejected"
    /\ patched.newValue = << Quote, Hash, Hash >>

\* C20: the fence of the literal a patch wrote is as wide as the larger of
\* the fence it replaced and one more than the longest run of quotes in the
\* new value, and so never narrower than the fence it replaced.
C20_FenceWidth ==
    patched.status = "written" =>
        /\ readLiteral(inlineLiteral).width =
              Max(patched.existing, 1 + longestRun(Quote, patched.newValue))
        /\ readLiteral(inlineLiteral).width >= patched.existing

\* the second patch of a literal kept its fence of two hashes for a value
\* that needs one
C20_Witness ==
    /\ patched.status = "written"
    /\ patched.count = 2
    /\ patched.existing = 2
    /\ longestRun(Quote, patched.newValue) = 0
    /\ readLiteral(inlineLiteral).width = 2

\* C22: whatever a reader of the source file reads once a patch has begun
\* is the whole original text or the whole patched text, never a part of
\* the text being written.
C22_ReaderSeesWholeText ==
    ( observed.read /\ writer.pc # "idle" ) =>
        observed.text \in { writer.original, writer.replacement }

\* the source file was read while the patched text was partly written, and
\* the patched text differs from the original
C22_Witness ==
    /\ observed.read
    /\ writer.pc = "writing"
    /\ observed.written > 0
    /\ observed.written < Len(writer.replacement)
    /\ writer.replacement # writer.original

-----------------------------------------------------------------------------
(* Properties of refreshDebounced                                          *)

\* call i is the last of its burst: no call follows it within the delay
LastOfBurst(i) ==
    i = Len(callTimes) \/ callTimes[i + 1] >= callTimes[i] + Delay

\* the times at which the bursts so far end: Delay after their last call
BurstEnds ==
    { callTimes[i] + Delay : i \in { k \in 1..Len(callTimes) : LastOfBurst(k) } }

\* at most one timer; each refresh at the end of a burst, once; and the
\* refresh of every burst that ended before now has fired
DebounceSafe ==
    /\ Cardinality(timers) <= 1
    /\ \A j \in 1..Len(refreshTimes) :
        /\ refreshTimes[j] \in BurstEnds
        /\ \A k \in 1..(j - 1) : refreshTimes[k] < refreshTimes[j]
    /\ \A i \in 1..Len(callTimes) :
        ( LastOfBurst(i) /\ (callTimes[i] + Delay < now \/ i < Len(callTimes)) )
            => \E j \in 1..Len(refreshTimes) :
                    refreshTimes[j] = callTimes[i] + Delay

-----------------------------------------------------------------------------
(* Properties of the document links                                        *)

\* the 1-based number of the --- that closes the header
headerEnd(doc) ==
    Least(linesStartingWith(doc, "---") \ { Least(linesStartingWith(doc, "---")) })

\* the source: lines and the assertion_line: lines of the header
headerLines(doc, key) ==
    { i \in linesStartingWith(doc, key) : i < headerEnd(doc) }

\* C30: for a snapshot file whose header holds a source: line, the one link
\* provided covers that line and targets the path, and the assertion line,
\* that the header gives, also when lines of the body after the closing
\* --- start with source: or assertion_line:.
C30_LinkFromHeader ==
    ( documentLinks.asked /\ headerLines(snapDocument, "source") # {} )
    => LET h == Greatest(headerLines(snapDocument, "source"))
           numbers == headerLines(snapDocument, "assertion_line")
       IN  /\ Len(documentLinks.links) = 1
           /\ documentLinks.links[1].range.line = h - 1
           /\ documentLinks.links[1].target =
                 resolveSourceUri(snapDocument[h].value)
           /\ documentLinks.links[1].line =
                 IF numbers = {} THEN Undefined
                 ELSE snapDocument[Greatest(numbers)].value

-----------------------------------------------------------------------------
(* Specifications                                                          *)

\* the locator alone
InitLocate ==
    LocatorInputs /\ ReviewAtRest /\ RegistryAtRest /\ DelegationAtRest
    /\ DefinitionAtRest /\ PatchAtRest /\ WriteAtRest
    /\ DebounceAtRest /\ LinksAtRest
NextLocate == Locate
SpecLocate == InitLocate /\ [][NextLocate]_vars

\* the locator over varying workspaces
InitSearch ==
    SearchInputs /\ ReviewAtRest /\ RegistryAtRest /\ DelegationAtRest
    /\ DefinitionAtRest /\ PatchAtRest /\ WriteAtRest
    /\ DebounceAtRest /\ LinksAtRest
NextSearch == Locate
SpecSearch == InitSearch /\ [][NextSearch]_vars

\* the locator over documents whose file name may not name a module
InitPaths ==
    PathInputs /\ ReviewAtRest /\ RegistryAtRest /\ DelegationAtRest
    /\ DefinitionAtRest /\ PatchAtRest /\ WriteAtRest
    /\ DebounceAtRest /\ LinksAtRest
NextPaths == Locate
SpecPaths == InitPaths /\ [][NextPaths]_vars

\* a request made twice, over varying workspaces
InitRelocate ==
    SearchInputs /\ ReviewAtRest /\ RegistryAtRest /\ DelegationAtRest
    /\ DefinitionAtRest /\ PatchAtRest /\ WriteAtRest
    /\ DebounceAtRest /\ LinksAtRest
NextRelocate == Locate \/ LocateAgain
SpecRelocate == InitRelocate /\ [][NextRelocate]_vars

\* definition requests over every snapshot file
InitDefinition ==
    /\ DefinitionLocatorInputs /\ ReviewAtRest /\ RegistryAtRest /\ DelegationAtRest
    /\ DefinitionInputs /\ PatchAtRest /\ WriteAtRest
    /\ DebounceAtRest /\ LinksAtRest
NextDefinition == Locate \/ ProvideDefinition
SpecDefinition == InitDefinition /\ [][NextDefinition]_vars

\* the patcher alone, over every literal and value
InitPatch ==
    /\ LocatorAtRest /\ ReviewAtRest /\ RegistryAtRest /\ DelegationAtRest
    /\ DefinitionAtRest /\ PatchInputs /\ WriteAtRest
    /\ DebounceAtRest /\ LinksAtRest
NextPatch == Patch
SpecPatch == InitPatch /\ [][NextPatch]_vars

\* the write of a patched text, with a reader of the source file
InitWrite ==
    /\ LocatorAtRest /\ ReviewAtRest /\ RegistryAtRest /\ DelegationAtRest
    /\ DefinitionAtRest /\ PatchAtRest /\ WriteInputs
    /\ DebounceAtRest /\ LinksAtRest
NextWrite == BeginWrite \/ WriteChunk \/ RenameTemp \/ ReadSource
SpecWrite == InitWrite /\ [][NextWrite]_vars

\* the debounced refresh: time passes, and the host fires the timers due
InitDebounce ==
    /\ LocatorAtRest /\ ReviewAtRest /\ RegistryAtRest /\ DelegationAtRest
    /\ DefinitionAtRest /\ PatchAtRest /\ WriteAtRest
    /\ DebounceAtRest /\ LinksAtRest
NextDebounce == RefreshDebounced \/ TimerFires \/ Tick
SpecDebounce ==
    /\ InitDebounce /\ [][NextDebounce]_vars
    /\ WF_vars(TimerFires) /\ WF_vars(Tick)

\* the links of every snapshot document
InitLinks ==
    /\ LocatorAtRest /\ ReviewAtRest /\ RegistryAtRest /\ DelegationAtRest
    /\ DefinitionAtRest /\ PatchAtRest /\ WriteAtRest
    /\ DebounceAtRest /\ LinkInputs
NextLinks == ProvideDocumentLinks
SpecLinks == InitLinks /\ [][NextLinks]_vars

\* the accept / reject commands alone, their invocations overlapping
InitReview ==
    LocatorAtRest /\ ReviewInputs /\ RegistryAtRest /\ DelegationAtRest
    /\ DefinitionAtRest /\ PatchAtRest /\ WriteAtRest
    /\ DebounceAtRest /\ LinksAtRest
NextReview == Invoke \/ Rename \/ TestRun
SpecReview == InitReview /\ [][NextReview]_vars

\* the discovery passes alone, overlapping
InitRegistry ==
    LocatorAtRest /\ ReviewAtRest /\ RegistryInputs /\ DelegationAtRest
    /\ DefinitionAtRest /\ PatchAtRest /\ WriteAtRest
    /\ DebounceAtRest /\ LinksAtRest
NextRegistry == StartPass \/ ChildClose
SpecRegistry == InitRegistry /\ [][NextRegistry]_vars

\* the delegations alone, overlapping
InitDelegate ==
    LocatorAtRest /\ ReviewAtRest /\ RegistryAtRest /\ DelegationAtRest
    /\ DefinitionAtRest /\ PatchAtRest /\ WriteAtRest
    /\ DebounceAtRest /\ LinksAtRest
NextDelegate == ProcessInline \/ ProcessAll \/ DelegationClose
SpecDelegate == InitDelegate /\ [][NextDelegate]_vars

\* discovery passes and decisions on the inline snapshots they stored
InitDecide ==
    LocatorAtRest /\ ReviewAtRest /\ RegistryInputs /\ DelegationAtRest
    /\ DefinitionAtRest /\ PatchAtRest /\ WriteAtRest
    /\ DebounceAtRest /\ LinksAtRest
NextDecide == StartPass \/ ChildClose \/ DecideCached \/ DelegationClose
SpecDecide == InitDecide /\ [][NextDecide]_vars

\* the whole extension
Init == LocatorInputs /\ ReviewInputs /\ RegistryInputs /\ DelegationAtRest
    /\ DefinitionAtRest /\ PatchAtRest /\ WriteAtRest
    /\ DebounceAtRest /\ LinksAtRest
Next ==
    \/ Locate \/ LocateAgain \/ ProvideDefinition \/ Invoke \/ Rename \/ TestRun
    \/ StartPass \/ ChildClose
    \/ ProcessInline \/ ProcessAll \/ DecideCached \/ DelegationClose
    \/ Patch \/ BeginWrite \/ WriteChunk \/ RenameTemp \/ ReadSource
    \/ RefreshDebounced \/ TimerFires \/ Tick
    \/ ProvideDocumentLinks
Spec == Init /\ [][Next]_vars

=============================================================================
